---------------------------- MODULE Spec2Model ----------------------------
(***************************************************************************)
(* parfold: the optimistic-concurrency binary search tree (BST) and the    *)
(* memoizing comparator (CachedCompare) of src/src/parfold/bst.py.         *)
(*                                                                         *)
(* Scheduling is asyncio's: one task runs at a time and gives up control   *)
(* only at an await that suspends.  In BST that is the comparison call; in *)
(* CachedCompare it is the delegated comparison.  The critical sections    *)
(* under the asyncio locks hold no await, so a lock is taken and released  *)
(* inside one step; a task that finds a lock taken cannot take the step.   *)
(*                                                                         *)
(* Spec      : concurrent BST.insert / BST.contains calls on one tree.     *)
(* CacheSpec : concurrent CachedCompare.__call__ calls on one cache.       *)
(***************************************************************************)
EXTENDS Integers, Sequences, FiniteSets

\* ------------------------------------------------------------- bounds --
NumTasks == 3          \* BST calls (tasks) in a run
MaxValue == 3          \* values are 1..MaxValue
MaxRetries == 2        \* max_retries is drawn from 0..MaxRetries
NumCalls == 3          \* CachedCompare calls in a run
NumOps == 2            \* operand identities (id(a)) are 1..NumOps

Tasks  == 1..NumTasks
Values == 1..MaxValue
None   == 0            \* Python's None; node ids are 1..NumTasks
Calls  == 1..NumCalls
Ops    == 1..NumOps
Signs  == {-1, 0, 1}   \* a comparison's result: negative, zero, positive

VARIABLES
    nodes,        \* node id -> Node(value, left, right, version); id t is the
                  \* Node(value) created by task t's insert
    root,         \* BST._root
    root_lock,    \* BST._root_lock: its holder, or None
    max_retries,  \* BST._max_retries
    task,         \* task id -> its call's frame (position and locals)
    quiescent,    \* history: task id -> no insert was in flight when this
                  \* contains call began, and none has begun since
    known         \* history: task id -> an insert of this contains call's
                  \* value had already returned when the call began

VARIABLES
    cache,        \* CachedCompare._cache: a dict from (id(a), id(b)) to a result
    lock,         \* CachedCompare._lock: its holder, or None
    hits,         \* CachedCompare.hits
    misses,       \* CachedCompare.misses
    call_count,   \* the tests' counter of the wrapped function's invocations
    underlying,   \* the wrapped function, as far as its results are known:
                  \* a dict from (id(a), id(b)) to the result it gives
    call          \* call id -> the call's frame

treeVars == <<nodes, root, root_lock, max_retries, task, quiescent, known>>
cacheVars == <<cache, lock, hits, misses, call_count, underlying, call>>
vars == <<treeVars, cacheVars>>

\* ---------------------------------------------------------------- Node --
Node(v) == [value |-> v, left |-> None, right |-> None, version |-> 0]

\* a frame: pc is "idle", "await" (suspended in the comparison), "done"
\* (returned), "raised" (RuntimeError of line 121) or "failed" (the
\* comparison's own exception propagated)
Frame(pc, op, v, r, n, p, gl, sv, sl, sr, res) ==
    [pc |-> pc, op |-> op, value |-> v, retries |-> r, node |-> n,
     parent |-> p, go_left |-> gl, saved_version |-> sv, saved_left |-> sl,
     saved_right |-> sr, result |-> res]

IdleFrame == Frame("idle", "none", 0, 0, None, None, FALSE, 0, None, None, FALSE)

\* a finished call keeps what the caller can observe: how it ended, its
\* argument, its result, and the number of conflicts it counted
Ended(pc, op, v, r, res) ==
    Frame(pc, op, v, r, None, None, FALSE, 0, None, None, res)

\* the comparison function of the tests: a consistent total order
int_compare(a, b) == a - b


\* --------------------------------------------------------- BST.insert --
\* line 114: which side the traversal takes on a comparison result
GoLeftFlipped(cmp) == cmp > 0
GoLeftOrEqual(cmp) == cmp <= 0
GoLeft(cmp) == cmp < 0

\* lines 89 / 94: which slot of the parent the attachment writes
WriteLeftAlways(gl) == TRUE
WriteLeft(gl) == gl

\* lines 90 / 95: parent.version += 1
VersionKept(ver) == ver
VersionAfterAttach(ver) == ver + 1

\* lines 86-88 / 93: the attach check, expected_version read just before it
CanAttachNever(p, gl) == FALSE
CanAttach(p, gl) ==
    LET expected_version == nodes[p].version
    IN  /\ (IF gl THEN nodes[p].left ELSE nodes[p].right) = None
        /\ nodes[p].version = expected_version

\* lines 81, 89-91 / 94-96: the new node becomes a child of p
Attached(t, v, p, gl) ==
    [nodes EXCEPT ![t] = Node(v),
                  ![p] = [@ EXCEPT !.left = IF WriteLeft(gl) THEN t ELSE @,
                                   !.right = IF WriteLeft(gl) THEN @ ELSE t,
                                   !.version = VersionAfterAttach(@)]]

\* lines 68 / 70: self._root is None
RootEmptyAlways == TRUE
RootEmpty == root = None

\* line 79: while retries < self._max_retries
BudgetLeftTight(r) == r + 1 < max_retries
BudgetLeft(r) == r < max_retries

\* lines 116 / 119: node = saved_left / node = saved_right
DescendStuck(t, cmp) == task[t].node
Descend(t, cmp) == IF GoLeft(cmp) THEN task[t].saved_left ELSE task[t].saved_right

\* line 113: parent = node
NextParentStale(t) == task[t].parent
NextParent(t) == task[t].node

\* line 109: the check after the comparison resumes
VersionChangedNever(t) == FALSE
VersionChanged(t) == nodes[task[t].node].version # task[t].saved_version

\* lines 79-121, from the top of the while loop to the next suspension,
\* return or raise, for task t inserting v with locals r (retries), n (node),
\* p (parent), gl (go_left).  A failed attach (lines 98-101) is the one way
\* round the loop that does not suspend: it restarts at the root.
Insert_Loop(t, v, r, n, p, gl) ==
    LET conflict == BudgetLeft(r) /\ n = None /\ p # None /\ ~CanAttach(p, gl)
        r1 == IF conflict THEN r + 1 ELSE r
        n1 == IF conflict THEN root ELSE n
        p1 == IF conflict THEN None ELSE p
    IN  IF ~BudgetLeft(r1)
        THEN \* line 121
             /\ task' = [task EXCEPT ![t] = Ended("raised", "insert", v, r1, FALSE)]
             /\ UNCHANGED <<nodes, root>>
        ELSE IF n1 = None
        THEN IF p1 = None
             THEN \* lines 82-84
                  /\ nodes' = [nodes EXCEPT ![t] = Node(v)]
                  /\ root' = t
                  /\ task' = [task EXCEPT ![t] = Ended("done", "insert", v, r1, FALSE)]
             ELSE \* lines 86-96
                  /\ nodes' = Attached(t, v, p1, gl)
                  /\ root' = root
                  /\ task' = [task EXCEPT ![t] = Ended("done", "insert", v, r1, FALSE)]
        ELSE \* lines 103-107: snapshot, then suspend in the comparison
             /\ task' = [task EXCEPT ![t] =
                    Frame("await", "insert", v, r1, n1, p1, gl, nodes[n1].version,
                          nodes[n1].left, nodes[n1].right, FALSE)]
             /\ UNCHANGED <<nodes, root>>

InsertInFlight == \E u \in Tasks : task[u].op = "insert" /\ task[u].pc = "await"

\* lines 61-77 and on into the loop: a task calls insert(v)
InsertCall(t, v) ==
    /\ task[t].pc = "idle"
    /\ \A u \in Tasks : u < t => task[u].pc # "idle"
    /\ RootEmpty => root_lock = None                \* line 69: acquire
    /\ IF RootEmpty /\ RootEmpty                    \* lines 68 and 70
       THEN /\ nodes' = [nodes EXCEPT ![t] = Node(v)]   \* line 71
            /\ root' = t
            /\ task' = [task EXCEPT ![t] = Ended("done", "insert", v, 0, FALSE)]
       ELSE Insert_Loop(t, v, 0, root, None, FALSE)     \* lines 74-77
    /\ root_lock' = None                            \* released on exit
    /\ quiescent' = [u \in Tasks |-> FALSE]
    /\ UNCHANGED <<max_retries, known, cacheVars>>

\* lines 107-119: the comparison returns and the task runs on
InsertResume(t) ==
    /\ task[t].pc = "await" /\ task[t].op = "insert"
    /\ LET f == task[t]
           cmp == int_compare(f.value, nodes[f.node].value)
       IN  IF VersionChanged(t)
           THEN \* lines 110-111: same node again
                Insert_Loop(t, f.value, f.retries + 1, f.node, f.parent, f.go_left)
           ELSE \* lines 113-119
                Insert_Loop(t, f.value, f.retries, Descend(t, cmp),
                            NextParent(t), GoLeft(cmp))
    /\ UNCHANGED <<root_lock, max_retries, quiescent, known, cacheVars>>

\* line 107: the comparison raises; nothing catches it
CompareErrorBumps(t) ==
    /\ nodes' = [nodes EXCEPT ![task[t].node].version = @ + 1]
    /\ UNCHANGED root
CompareErrorEffect(t) == UNCHANGED <<nodes, root>>

InsertCompareError(t) ==
    /\ task[t].pc = "await" /\ task[t].op = "insert"
    /\ task' = [task EXCEPT ![t] = Ended("failed", "insert", @.value, @.retries, FALSE)]
    /\ CompareErrorEffect(t)
    /\ UNCHANGED <<root_lock, max_retries, quiescent, known, cacheVars>>

\* ------------------------------------------------------- BST.contains --
\* line 130: node.left if cmp < 0 else node.right
ContainsGoLeftFlipped(cmp) == cmp > 0
ContainsGoLeft(cmp) == cmp < 0

\* lines 126-131 from the top of the while loop at node n
Contains_Loop(t, v, n) ==
    IF n = None
    THEN task' = [task EXCEPT ![t] = Ended("done", "contains", v, 0, FALSE)]
    ELSE task' = [task EXCEPT ![t] =
             Frame("await", "contains", v, 0, n, None, FALSE, 0, None, None, FALSE)]

\* lines 123-127
ContainsCall(t, v) ==
    /\ task[t].pc = "idle"
    /\ \A u \in Tasks : u < t => task[u].pc # "idle"
    /\ Contains_Loop(t, v, root)
    /\ quiescent' = [quiescent EXCEPT ![t] = ~InsertInFlight]
    /\ known' = [known EXCEPT ![t] =
           \E u \in Tasks : /\ task[u].op = "insert" /\ task[u].pc = "done"
                            /\ task[u].value = v]
    /\ UNCHANGED <<nodes, root, root_lock, max_retries, cacheVars>>

\* lines 127-130
ContainsResume(t) ==
    /\ task[t].pc = "await" /\ task[t].op = "contains"
    /\ LET f == task[t]
           cmp == int_compare(f.value, nodes[f.node].value)
       IN  IF cmp = 0
           THEN task' = [task EXCEPT ![t] = Ended("done", "contains", f.value, 0, TRUE)]
           ELSE Contains_Loop(t, f.value,
                    IF ContainsGoLeft(cmp) THEN nodes[f.node].left
                                           ELSE nodes[f.node].right)
    /\ UNCHANGED <<nodes, root, root_lock, max_retries, quiescent, known, cacheVars>>

\* line 127: the comparison raises
ContainsCompareError(t) ==
    /\ task[t].pc = "await" /\ task[t].op = "contains"
    /\ task' = [task EXCEPT ![t] = Ended("failed", "contains", @.value, 0, FALSE)]
    /\ CompareErrorEffect(t)
    /\ UNCHANGED <<root_lock, max_retries, quiescent, known, cacheVars>>

\* ------------------------------------------- BST.to_list, BST.__len__ --
RECURSIVE inorder(_)
\* lines 137-142
inorder(n) ==
    IF n = None THEN <<>>
    ELSE inorder(nodes[n].left) \o <<nodes[n].value>> \o inorder(nodes[n].right)

\* lines 133-145
to_list == inorder(root)

RECURSIVE count(_)
\* lines 149-152
count(n) ==
    IF n = None THEN 0
    ELSE 1 + count(nodes[n].left) + count(nodes[n].right)

\* lines 147-153
len == count(root)

\* ------------------------------------------------------ CachedCompare --
\* a call's frame: pc is "idle", "await" (suspended in the wrapped function),
\* "done" (returned) or "failed" (the wrapped function raised); how records
\* whether the call was answered from the cache ("hit") or delegated ("miss")
CallFrame(pc, a, b, res, how) ==
    [pc |-> pc, a |-> a, b |-> b, result |-> res, how |-> how]

IdleCall == CallFrame("idle", 0, 0, 0, "none")

\* dict assignment d[k] = x
Put(d, k, x) == [j \in DOMAIN d \cup {k} |-> IF j = k THEN x ELSE d[j]]

\* line 187: the result for a reverse hit
ReverseResultSame(r) == r
ReverseResult(r) == 0 - r

\* lines 183 / 186: self.hits += 1
HitsKept(h) == h
HitsAfterHit(h) == h + 1

\* line 193: self.misses += 1
MissesKept(m) == m
MissesAfterStore(m) == m + 1

\* lines 181-187 / 191-193: leaving an `async with self._lock` block
LockKept(c) == c
LockOnExit(c) == None

\* lines 182-187: what the cache answers for (a, b); defined when it holds
\* the pair in one orientation or the other
Lookup(a, b) ==
    IF <<a, b>> \in DOMAIN cache THEN cache[<<a, b>>]
    ELSE ReverseResult(cache[<<b, a>>])

Cached(a, b) == <<a, b>> \in DOMAIN cache \/ <<b, a>> \in DOMAIN cache

\* identities are interchangeable: a call names operands already seen or
\* the next fresh ones, in order
SeenOps == {call[d].a : d \in Calls} \cup {call[d].b : d \in Calls}
FreshOrSeen(x, seen) == \A y \in Ops : y < x => y \in seen

\* lines 177-189: a task calls the comparator on (a, b)
CacheCall(c, a, b) ==
    /\ call[c].pc = "idle"
    /\ \A d \in Calls : d < c => call[d].pc # "idle"
    /\ FreshOrSeen(a, SeenOps) /\ FreshOrSeen(b, SeenOps \cup {a})
    /\ lock = None                                   \* line 181: acquire
    /\ IF Cached(a, b)
       THEN \* lines 182-187
            /\ hits' = HitsAfterHit(hits)
            /\ call' = [call EXCEPT ![c] = CallFrame("done", a, b, Lookup(a, b), "hit")]
            /\ UNCHANGED call_count
       ELSE \* line 189: the wrapped function is entered
            /\ call_count' = call_count + 1
            /\ call' = [call EXCEPT ![c] = CallFrame("await", a, b, 0, "miss")]
            /\ UNCHANGED hits
    /\ lock' = LockOnExit(c)
    /\ UNCHANGED <<cache, misses, underlying, treeVars>>

\* lines 189-195: the wrapped function returns r, the result it gives for
\* (a, b) every time
UnderlyingReturn(c, r) ==
    /\ call[c].pc = "await"
    /\ LET key == <<call[c].a, call[c].b>>
       IN  /\ key \in DOMAIN underlying => r = underlying[key]
           /\ underlying' = Put(underlying, key, r)
           /\ lock = None                            \* line 191: acquire
           /\ cache' = Put(cache, key, r)            \* line 192
           /\ misses' = MissesAfterStore(misses)     \* line 193
           /\ lock' = LockOnExit(c)
           /\ call' = [call EXCEPT ![c] = CallFrame("done", @.a, @.b, r, "miss")]
    /\ UNCHANGED <<hits, call_count, treeVars>>

\* line 189: the wrapped function raises; nothing catches it
UnderlyingRaise(c) ==
    /\ call[c].pc = "await"
    /\ call' = [call EXCEPT ![c] = CallFrame("failed", @.a, @.b, 0, "miss")]
    /\ UNCHANGED <<cache, lock, hits, misses, call_count, underlying, treeVars>>

\* lines 170-175
CacheInit ==
    /\ cache = <<>>
    /\ lock = None
    /\ hits = 0
    /\ misses = 0
    /\ call_count = 0
    /\ underlying = <<>>
    /\ call = [c \in Calls |-> IdleCall]

\* -------------------------------------------------------- the tree run --
\* lines 49-59: a fresh tree, with any max_retries the caller passes
TreeInit ==
    /\ nodes = [n \in Tasks |-> Node(0)]
    /\ root = None
    /\ root_lock = None
    /\ max_retries \in 0..MaxRetries
    /\ task = [t \in Tasks |-> IdleFrame]
    /\ quiescent = [t \in Tasks |-> FALSE]
    /\ known = [t \in Tasks |-> FALSE]

Init == TreeInit /\ CacheInit

Next ==
    \/ \E t \in Tasks, v \in Values : InsertCall(t, v)
    \/ \E t \in Tasks : InsertResume(t)
    \/ \E t \in Tasks : InsertCompareError(t)
    \/ \E t \in Tasks, v \in Values : ContainsCall(t, v)
    \/ \E t \in Tasks : ContainsResume(t)
    \/ \E t \in Tasks : ContainsCompareError(t)

Spec == Init /\ [][Next]_vars

\* ------------------------------------- the run of returning comparisons --
\* every comparison returns: the calls and the resumptions, no raising
\* comparator
FairNext ==
    \/ \E t \in Tasks, v \in Values : InsertCall(t, v)
    \/ \E t \in Tasks : InsertResume(t)
    \/ \E t \in Tasks, v \in Values : ContainsCall(t, v)
    \/ \E t \in Tasks : ContainsResume(t)

\* the event loop runs every task whose awaited comparison has returned: an
\* insert that stays resumable is resumed
Fairness == \A t \in Tasks : WF_vars(InsertResume(t))

FairSpec == Init /\ [][FairNext]_vars /\ Fairness

\* ------------------------------------------------------- the cache run --
CacheNext ==
    \/ \E c \in Calls, a \in Ops, b \in Ops : CacheCall(c, a, b)
    \/ \E c \in Calls, r \in Signs : UnderlyingReturn(c, r)
    \/ \E c \in Calls : UnderlyingRaise(c)

\* the tree is not used in this run: one fresh tree stands by
CacheRunInit ==
    /\ nodes = [n \in Tasks |-> Node(0)]
    /\ root = None
    /\ root_lock = None
    /\ max_retries = MaxRetries
    /\ task = [t \in Tasks |-> IdleFrame]
    /\ quiescent = [t \in Tasks |-> FALSE]
    /\ known = [t \in Tasks |-> FALSE]
    /\ CacheInit

CacheSpec == CacheRunInit /\ [][CacheNext]_vars


\* ================================================= properties: the tree ==
InsertsReturned == {t \in Tasks : task[t].op = "insert" /\ task[t].pc = "done"}
AllInsertsReturned == \A t \in Tasks : task[t].op = "insert" => task[t].pc = "done"
Occurrences(seq, v) == Cardinality({i \in 1..Len(seq) : seq[i] = v})
NonDecreasing(seq) ==
    \A i \in 1..(Len(seq) - 1) : int_compare(seq[i], seq[i + 1]) <= 0
Populated(n) ==
    (IF nodes[n].left # None THEN 1 ELSE 0) + (IF nodes[n].right # None THEN 1 ELSE 0)

\* C1: once every insert that was called has returned successfully, to_list()
\* is in non-decreasing comparator order and holds each value exactly as many
\* times as it was inserted (so the list depends on the multiset of values
\* alone, not on the order or interleaving of the inserts).
C1_SortedMultiset ==
    AllInsertsReturned =>
        /\ NonDecreasing(to_list)
        /\ \A v \in Values :
               Occurrences(to_list, v) =
                   Cardinality({t \in InsertsReturned : task[t].value = v})

\* three interleaved inserts of distinct values, one of which met a conflict
C1_Witness ==
    /\ InsertsReturned = Tasks
    /\ \E t \in Tasks : task[t].retries > 0
    /\ \A t, u \in Tasks : t # u => task[t].value # task[u].value
    /\ Len(to_list) = NumTasks

\* C2: in every reachable state len(tree) is the number of insert calls that
\* have returned successfully.
C2_LenIsReturnedInserts == len = Cardinality(InsertsReturned)

\* all tasks inserted, two of them the same value, one after a conflict
C2_Witness ==
    /\ InsertsReturned = Tasks
    /\ len = NumTasks
    /\ \E t, u \in Tasks : t # u /\ task[t].value = task[u].value
    /\ \E t \in Tasks : task[t].retries > 0

\* C3, as claimed: an insert raises the retry-exhausted error only after more
\* than max_retries conflicts, and one that met at most max_retries conflicts
\* returns successfully.  Stated for a positive max_retries, where the error
\* follows a real conflict.
C3_RaisesOnlyBeyondBudget ==
    max_retries > 0 =>
        \A t \in Tasks :
            task[t].pc = "raised" => task[t].retries > max_retries

\* C4: a contains(v) call made once all insertions have completed returns
\* true exactly when some insert of v has returned successfully.
C4_ContainsAtQuiescence ==
    \A c \in Tasks :
        (task[c].op = "contains" /\ task[c].pc = "done" /\ quiescent[c]) =>
            (task[c].result <=>
                \E t \in InsertsReturned : task[t].value = task[c].value)

\* a quiescent contains that found its value below the root
C4_Witness ==
    \E c \in Tasks :
        /\ task[c].op = "contains" /\ task[c].pc = "done" /\ quiescent[c]
        /\ task[c].result
        /\ root # None /\ nodes[root].value # task[c].value

\* C5: the step in which a comparison raises ends that call as failed and
\* changes nothing else: no node, child slot, version or root, and no other
\* task; a call that failed never attached its node; and every insert still
\* suspended can resume.
C5_FailedStep ==
    \A t \in Tasks :
        (task[t].pc = "await" /\ task'[t].pc = "failed") =>
            /\ nodes' = nodes
            /\ root' = root
            /\ \A u \in Tasks : u # t => task'[u] = task[u]
C5_FailedWroteNothing ==
    \A t \in Tasks :
        task[t].pc = "failed" =>
            /\ root # t
            /\ nodes[t] = Node(0)
            /\ \A n \in Tasks : nodes[n].left # t /\ nodes[n].right # t
            /\ \A u \in Tasks :
                   (task[u].pc = "await" /\ task[u].op = "insert") =>
                       ENABLED InsertResume(u)
C5_CompareErrorLeavesTree == []C5_FailedWroteNothing /\ [][C5_FailedStep]_vars

\* an insert failed in a comparison, and an insert called before it has
\* attached its node below the root
C5_Witness ==
    \E t, u \in Tasks :
        /\ task[t].pc = "failed" /\ task[t].op = "insert"
        /\ u < t /\ task[u].op = "insert" /\ task[u].pc = "done"
        /\ root # None /\ root # u

\* C10: every node's version is the number of its populated child slots, and
\* a step changes a version only by adding 1 while populating one empty slot
\* of that node.
C10_VersionIsPopulated == \A n \in Tasks : nodes[n].version = Populated(n)
C10_VersionStep ==
    \A n \in Tasks :
        nodes'[n].version # nodes[n].version =>
            /\ nodes'[n].version = nodes[n].version + 1
            /\ \/ nodes[n].left = None /\ nodes'[n].left # None
                  /\ nodes'[n].right = nodes[n].right
               \/ nodes[n].right = None /\ nodes'[n].right # None
                  /\ nodes'[n].left = nodes[n].left
C10_VersionCountsChildren == []C10_VersionIsPopulated /\ [][C10_VersionStep]_vars

\* a node with both children attached
C10_Witness == \E n \in Tasks : nodes[n].version = 2 /\ Populated(n) = 2


\* ================================================ properties: the cache ==
SamePair(d, a, b) ==
    <<call[d].a, call[d].b>> = <<a, b>> \/ <<call[d].a, call[d].b>> = <<b, a>>
PairReturned(a, b) == \E d \in Calls : call[d].pc = "done" /\ SamePair(d, a, b)
Delegated(a, b) ==
    {d \in Calls : call[d].how = "miss" /\ call[d].pc \in {"await", "done"}
                   /\ SamePair(d, a, b)}

\* C6: a call for a pair for which a call (in either orientation) has already
\* returned is a hit: it returns in the same step, adds exactly 1 to hits,
\* leaves misses and the wrapped function's invocation count unchanged, and
\* returns the stored result for the stored orientation, or its negation for
\* the reverse one.
C6_LaterCallStep ==
    \A c \in Calls, a \in Ops, b \in Ops :
        (/\ call[c].pc = "idle" /\ call'[c].pc # "idle"
         /\ call'[c].a = a /\ call'[c].b = b
         /\ PairReturned(a, b)) =>
            /\ hits' = hits + 1
            /\ misses' = misses
            /\ call_count' = call_count
            /\ call'[c].pc = "done"
            /\ call'[c].result =
                   IF <<a, b>> \in DOMAIN cache THEN cache[<<a, b>>]
                   ELSE 0 - cache[<<b, a>>]
C6_LaterCallIsHit == [][C6_LaterCallStep]_vars

\* a reverse hit that negated a non-zero stored result
C6_Witness ==
    \E c, d \in Calls :
        /\ call[d].pc = "done" /\ call[d].how = "miss" /\ call[d].result # 0
        /\ call[c].pc = "done" /\ call[c].how = "hit"
        /\ call[c].a = call[d].b /\ call[c].b = call[d].a /\ call[c].a # call[c].b
        /\ call[c].result = 0 - call[d].result
        /\ <<call[c].a, call[c].b>> \notin DOMAIN cache

\* C7, as claimed: once a pair is in the cache in either orientation, what
\* the cache answers for (a, b) is the negation of what it answers for
\* (b, a), whatever the wrapped function.
C7_AntisymmetricForAnyFunction ==
    \A a \in Ops, b \in Ops : Cached(a, b) => Lookup(a, b) = 0 - Lookup(b, a)

\* the wrapped function is antisymmetric on (a, b), as far as it is known
AntisymmetricOn(a, b) ==
    (<<a, b>> \in DOMAIN underlying /\ <<b, a>> \in DOMAIN underlying) =>
        underlying[<<a, b>>] = 0 - underlying[<<b, a>>]

\* C7, amended: the same, for a wrapped function that is antisymmetric on
\* the pair (f(b, a) = -f(a, b), so f(a, a) = 0), under every interleaving.
C7_AntisymmetricIfFunctionIs ==
    \A a \in Ops, b \in Ops :
        (Cached(a, b) /\ AntisymmetricOn(a, b)) => Lookup(a, b) = 0 - Lookup(b, a)

\* both orientations of a pair were computed concurrently and stored, with
\* non-zero results that negate each other
C7_Witness ==
    \E a \in Ops, b \in Ops :
        /\ a # b
        /\ <<a, b>> \in DOMAIN cache /\ <<b, a>> \in DOMAIN cache
        /\ cache[<<a, b>>] # 0
        /\ AntisymmetricOn(a, b)
        /\ \E c \in Calls : call[c].pc = "done" /\ call[c].how = "hit" /\ SamePair(c, a, b)

\* C8, as claimed: for each pair the wrapped function is invoked (without
\* raising) at most once, however the calls interleave.
C8_OneInvocationPerPair ==
    \A a \in Ops, b \in Ops : Cardinality(Delegated(a, b)) <= 1

\* C8, amended: a call made before any call for its pair has returned
\* invokes the wrapped function once (so a pair asked for by k overlapping
\* calls is computed k times); each invocation that returns adds exactly 1 to
\* misses in the step in which its call returns; misses counts the
\* invocations that returned, hits + misses the completed calls, and
\* call_count the calls that were not hits.
C8_NewPairStep ==
    \A c \in Calls, a \in Ops, b \in Ops :
        (/\ call[c].pc = "idle" /\ call'[c].pc # "idle"
         /\ call'[c].a = a /\ call'[c].b = b
         /\ ~PairReturned(a, b)) =>
            /\ call_count' = call_count + 1
            /\ call'[c].pc = "await"
            /\ misses' = misses /\ hits' = hits
C8_ReturnStep ==
    \A c \in Calls :
        (call[c].pc = "await" /\ call'[c].pc = "done") =>
            /\ misses' = misses + 1
            /\ call_count' = call_count /\ hits' = hits
C8_Counters ==
    /\ misses = Cardinality({c \in Calls : call[c].pc = "done" /\ call[c].how = "miss"})
    /\ hits + misses = Cardinality({c \in Calls : call[c].pc = "done"})
    /\ call_count = Cardinality({c \in Calls : call[c].how = "miss"})
C8_OneInvocationPerMissingCall ==
    []C8_Counters /\ [][C8_NewPairStep]_vars /\ [][C8_ReturnStep]_vars

\* two overlapping calls for one pair both delegated and both returned
C8_Witness ==
    \E c, d \in Calls :
        /\ c # d /\ SamePair(d, call[c].a, call[c].b)
        /\ call[c].pc = "done" /\ call[c].how = "miss"
        /\ call[d].pc = "done" /\ call[d].how = "miss"
        /\ misses = 2 /\ call_count = 2

\* C9: whenever some call is suspended in the wrapped function the cache
\* mutex is free.
C9_LockFreeWhileAwaiting ==
    (\E c \in Calls : call[c].pc = "await") => lock = None

\* a call is still inside the wrapped function while a call made after it
\* has been answered from the cache
C9_Witness ==
    \E c, d \in Calls :
        /\ c < d
        /\ call[c].pc = "await"
        /\ call[d].pc = "done" /\ call[d].how = "hit"
        /\ lock = None


\* ===================================== properties: the tree's structure ==
InTree(n) ==
    n # None /\ (root = n \/ \E p \in Tasks : nodes[p].left = n \/ nodes[p].right = n)

RECURSIVE SubtreeValues(_)
SubtreeValues(n) ==
    IF n = None THEN {}
    ELSE {nodes[n].value} \cup SubtreeValues(nodes[n].left)
                          \cup SubtreeValues(nodes[n].right)

\* C11: a populated child slot refers to the same node in every later state,
\* and the value of a node in the tree never changes.
C11_Step ==
    \A n \in Tasks :
        /\ nodes[n].left # None => nodes'[n].left = nodes[n].left
        /\ nodes[n].right # None => nodes'[n].right = nodes[n].right
        /\ InTree(n) => nodes'[n].value = nodes[n].value
C11_ChildrenWriteOnce == [][C11_Step]_vars

\* every task inserted, and one node had its second slot filled after its
\* first
C11_Witness ==
    /\ InsertsReturned = Tasks
    /\ \E n \in Tasks : nodes[n].left # None /\ nodes[n].right # None

\* C12: the root is set once, by an insert that finds the tree empty and
\* returns in that same step without suspending in a comparison; it is never
\* reassigned; every other insert runs the traversal with a root present and
\* ends up below it.
C12_Step ==
    /\ root # None => root' = root
    /\ (root = None /\ root' # None) =>
           \E t \in Tasks :
               /\ task[t].pc = "idle"
               /\ task'[t] = Ended("done", "insert", task'[t].value, 0, FALSE)
               /\ root' = t
               /\ nodes'[t] = Node(task'[t].value)
C12_RootHolder ==
    /\ (\E t \in Tasks : task[t].op = "insert") => root # None
    /\ root # None =>
           /\ task[root].op = "insert" /\ task[root].pc = "done"
           /\ \A t \in Tasks :
                  (t # root /\ task[t].op = "insert" /\ task[t].pc = "done") =>
                      \E p \in Tasks : nodes[p].left = t \/ nodes[p].right = t
C12_RootSetOnce == []C12_RootHolder /\ [][C12_Step]_vars

\* the first insert holds the root, a second is suspended comparing with it,
\* a third has attached below it
C12_Witness ==
    \E t, u \in Tasks :
        /\ root # None /\ t # root /\ u # root /\ t # u
        /\ task[t].op = "insert" /\ task[t].pc = "await" /\ task[t].node = root
        /\ task[u].op = "insert" /\ task[u].pc = "done"

\* C13: in every reachable state, for every node of the tree, each value in
\* its left subtree compares less than its value and each value in its right
\* subtree compares greater than or equal to it.
C13_SearchTreeOrder ==
    \A n \in Tasks :
        InTree(n) =>
            /\ \A v \in SubtreeValues(nodes[n].left) :
                   int_compare(v, nodes[n].value) < 0
            /\ \A v \in SubtreeValues(nodes[n].right) :
                   int_compare(v, nodes[n].value) >= 0

\* an insert is in flight while the tree holds an equal value to the right
\* of its twin
C13_Witness ==
    /\ \E t \in Tasks : task[t].op = "insert" /\ task[t].pc = "await"
    /\ \E n \in Tasks :
           /\ InTree(n) /\ nodes[n].right # None
           /\ nodes[nodes[n].right].value = nodes[n].value


\* ============================================ properties: the retry loop ==
\* task t takes a step out of its comparison, which returned, having found
\* the version of its node changed
ResumesOnChangedVersion(t) ==
    /\ task[t].op = "insert" /\ task[t].pc = "await"
    /\ nodes[task[t].node].version # task[t].saved_version
    /\ task'[t] # task[t] /\ task'[t].pc # "failed"

C15_SnapshotCurrentIfVersionSame ==
    \A t \in Tasks :
        (/\ task[t].op = "insert" /\ task[t].pc = "await"
         /\ nodes[task[t].node].version = task[t].saved_version) =>
            /\ task[t].saved_left = nodes[task[t].node].left
            /\ task[t].saved_right = nodes[task[t].node].right

\* an insert that snapshotted a node again after a conflict, holding a child
\* in its snapshot, with the check passing
C15_Witness ==
    \E t \in Tasks :
        /\ task[t].op = "insert" /\ task[t].pc = "await"
        /\ task[t].retries > 0
        /\ nodes[task[t].node].version = task[t].saved_version
        /\ (task[t].saved_left # None \/ task[t].saved_right # None)

\* task t takes a step inside the retry loop: out of a comparison that
\* returned, or into the loop from its call on a non-empty tree
StepsInLoop(t) ==
    /\ task'[t] # task[t] /\ task'[t].op = "insert" /\ task'[t].pc # "failed"
    /\ task[t].pc = "await" \/ (task[t].pc = "idle" /\ root # None)

\* C16: an insert inside the loop never assigns the root: while it is
\* suspended its node is present, and is the root when its parent is absent;
\* a step it takes in the loop leaves the root alone, and if it returns, its
\* new node hangs below a parent that is in the tree.
C16_InLoop ==
    \A t \in Tasks :
        (task[t].op = "insert" /\ task[t].pc = "await") =>
            /\ root # None /\ task[t].node # None
            /\ task[t].parent = None => task[t].node = root
C16_Step ==
    \A t \in Tasks :
        StepsInLoop(t) =>
            /\ root' = root
            /\ task'[t].pc = "done" =>
                   \E p \in Tasks :
                       /\ p # t /\ InTree(p)
                       /\ nodes'[p].left = t \/ nodes'[p].right = t
C16_LoopNeverAssignsRoot == []C16_InLoop /\ [][C16_Step]_vars

\* an insert went down two levels and attached below a child of the root
C16_Witness ==
    \E t, p \in Tasks :
        /\ task[t].op = "insert" /\ task[t].pc = "done"
        /\ p # root /\ InTree(p)
        /\ nodes[p].left = t \/ nodes[p].right = t

\* C17: a contains(v) call that began after an insert of v had returned
\* returns true, whatever inserts run alongside it; and a contains call that
\* returned true found its value in a node of the tree.
C17_ContainsSeesReturnedInserts ==
    \A c \in Tasks :
        (task[c].op = "contains" /\ task[c].pc = "done") =>
            /\ known[c] => task[c].result
            /\ task[c].result =>
                   \E n \in Tasks : InTree(n) /\ nodes[n].value = task[c].value

\* a contains call found a value inserted before it while an insert that was
\* in flight beside it is still suspended
C17_Witness ==
    \E c, t \in Tasks :
        /\ task[c].op = "contains" /\ task[c].pc = "done"
        /\ known[c] /\ ~quiescent[c] /\ task[c].result
        /\ t < c /\ task[t].op = "insert" /\ task[t].pc = "await"

\* C18: an insert whose version check passes and whose snapshotted child is
\* absent finds the attach check true, so it attaches in that step; and
\* retries grows only by 1, in a step out of a comparison that found the
\* version changed (never by the restart of lines 98-101).
C18_AttachCheckHolds ==
    \A t \in Tasks :
        (/\ task[t].op = "insert" /\ task[t].pc = "await"
         /\ nodes[task[t].node].version = task[t].saved_version) =>
            LET cmp == int_compare(task[t].value, nodes[task[t].node].value)
                child == IF cmp < 0 THEN task[t].saved_left ELSE task[t].saved_right
            IN  child = None => CanAttach(task[t].node, cmp < 0)
C18_Step ==
    \A t \in Tasks :
        task'[t].retries # task[t].retries =>
            /\ task[t].op = "insert" /\ task[t].pc = "await"
            /\ nodes[task[t].node].version # task[t].saved_version
            /\ task'[t].retries = task[t].retries + 1
C18_AttachNeverFails == []C18_AttachCheckHolds /\ [][C18_Step]_vars

\* an insert attached its node below the root after a conflict
C18_Witness ==
    \E t \in Tasks :
        /\ task[t].op = "insert" /\ task[t].pc = "done"
        /\ task[t].retries > 0
        /\ t # root /\ InTree(t)


\* the insert calls made so far, and the nodes other inserts have attached
\* below the root
InsertCalls == {t \in Tasks : task[t].op = "insert"}
AttachedByOthers(t) == {n \in Tasks \ {t} : n # root /\ InTree(n)}
\* the children node n gained since task t took its snapshot of n
GainedSinceSnapshot(t, n) ==
    {c \in Tasks \ {t} :
        /\ c \in {nodes[n].left, nodes[n].right}
        /\ c \notin {task[t].saved_left, task[t].saved_right}}

\* C19: every retry of an insert answers at least one child that another
\* insert attached, since its snapshot, to the node it is comparing at, and
\* the snapshot it takes next covers these children; a node takes two
\* children, so an insert retries at most twice at one node.  Over a run an
\* insert that entered the loop has retried at most as often as other inserts
\* attached nodes below the root, which is at most N - 2 for N insert calls;
\* and when N <= max_retries + 1, no insert has raised.
C19_Counted ==
    \A t \in InsertCalls :
        /\ t # root =>
               /\ task[t].retries <= Cardinality(AttachedByOthers(t))
               /\ task[t].retries <= Cardinality(InsertCalls) - 2
        /\ task[t].pc = "await" => task[t].saved_version <= 2
        /\ Cardinality(InsertCalls) <= max_retries + 1 => task[t].pc # "raised"
C19_Step ==
    \A t \in Tasks :
        task'[t].retries # task[t].retries =>
            LET n == task[t].node
            IN  /\ GainedSinceSnapshot(t, n) # {}
                /\ Cardinality(GainedSinceSnapshot(t, n))
                       = nodes[n].version - task[t].saved_version
                /\ task'[t].pc = "await" =>
                       /\ task'[t].node = n
                       /\ task'[t].saved_version = nodes[n].version
                       /\ task'[t].saved_version > task[t].saved_version
SlotsHolding(t) ==
    {<<p, side>> \in Tasks \X {"left", "right"} :
        (IF side = "left" THEN nodes[p].left ELSE nodes[p].right) = t}
TimesAttached(t) == Cardinality(SlotsHolding(t)) + (IF root = t THEN 1 ELSE 0)

\* C20: when every comparison returns and resumable inserts are resumed,
\* every insert that is suspended eventually has returned or raised the
\* retry-exhausted error.  One that returned has its node attached in exactly
\* one place; one that has not returned has no node attached, and the step in
\* which it raises leaves every node (value, children, version) and the root
\* unchanged.
C20_Outcome ==
    \A t \in InsertCalls :
        /\ task[t].pc = "done" => TimesAttached(t) = 1 /\ InTree(t)
        /\ task[t].pc # "done" => TimesAttached(t) = 0 /\ nodes[t] = Node(0)
C20_Step ==
    \A t \in Tasks :
        /\ (task'[t].pc = "raised" /\ task[t].pc # "raised") =>
               nodes' = nodes /\ root' = root
        /\ (task'[t].pc = "done" /\ task'[t].op = "insert" /\ task[t].pc # "done") =>
               /\ \A u \in Tasks \ {t} : TimesAttached(u)' = TimesAttached(u)
               /\ \A n \in Tasks \ {t} :
                      Populated(n)' = Populated(n) + (IF <<n, "left">> \in SlotsHolding(t)' \/ <<n, "right">> \in SlotsHolding(t)' THEN 1 ELSE 0)
C20_Terminates ==
    \A t \in Tasks :
        (task[t].op = "insert" /\ task[t].pc = "await")
            ~> (task[t].pc \in {"done", "raised"})
C20_InsertTerminates == []C20_Outcome /\ [][C20_Step]_vars /\ C20_Terminates

\* both ends happened in one run: an insert returned with its node attached
\* below the root, and another raised with no node attached
C20_Witness ==
    \E t, u \in Tasks :
        /\ task[t].op = "insert" /\ task[t].pc = "done" /\ t # root /\ InTree(t)
        /\ task[u].op = "insert" /\ task[u].pc = "raised" /\ TimesAttached(u) = 0

=============================================================================
